---- MODULE Spec2Model ----
(***************************************************************************)
(* Model of gitlab-ci-multi-runner's two network primitives:               *)
(*   - executors/kubernetes/util.go: waitForPodRunning, limits,            *)
(*     getKubeClientConfig                                                 *)
(*   - network client (unnamed/part_000): newClient, ensureTLSConfig,      *)
(*     createTransport, getCAChain, do, doJSON                             *)
(* Each primitive has its own specification (SpecWait, SpecLimits,         *)
(* SpecClient, SpecRace, and SpecURL, SpecKube, SpecChain for the pure     *)
(* functions); the variables of the other primitives stay at their idle    *)
(* values.                                                                 *)
(***************************************************************************)
EXTENDS Integers, Sequences, FiniteSets

VARIABLES
    \* ---- waitForPodRunning (util.go:54-95)
    wpc,        \* position of the caller's goroutine: "off", "loop", "select", "returned"
    ctxDone,    \* ctx.Done() is closed
    ctxAtCall,  \* ctx was already cancelled when waitForPodRunning was called
    ctxErr,     \* the value ctx.Err() reports once the context is done
    gor,        \* the fetch goroutines, in launch order: [st, o, r] (position,
                \* what Get delivered, the resp to send)
    out,        \* the progress sink: one entry per line written
    recvd,      \* the resp values the caller received, in order
    ret,        \* the returned (phase, err), or NoRet
    via,        \* which select case returned: "none", "fetch", "cancel"
    outAtRet,   \* Len(out) at the moment waitForPodRunning returned
    \* ---- limits (util.go:101-134)
    lpc,        \* "off", "call", "done"
    cpu,        \* the cpu argument, a string (sequence of characters)
    memory,     \* the memory argument
    lres,       \* the returned (api.ResourceList, error)
    \* ---- the coordinator client (part_000)
    cons,       \* how the client was constructed: [ok, asBuilt, err, URL]
    n,          \* the client struct: url, caFile, caData, skipVerify, updateTime, Transport
    fs,         \* the file at path n.caFile: NoFile or [mtime, data]
    now,        \* the wall clock read by time.Now()
    builds,     \* the number of transports built so far
    calls,      \* the number of doJSON calls started so far
    sinceChange,\* ensureTLSConfig calls started since the CA file last changed (capped at 2)
    active,     \* the threads that call the client
    th,         \* per thread: position and locals of its doJSON call
    dirty,      \* the CA file was written after the latest createTransport
    \* ---- one application of a pure function (fixCIURL, getKubeClientConfig, getCAChain)
    fpc,        \* "off", the function about to be applied, or "done"
    farg,       \* its argument
    fres        \* its result(s)

wvars == <<wpc, ctxDone, ctxAtCall, ctxErr, gor, out, recvd, ret, via, outAtRet>>

lvars == <<lpc, cpu, memory, lres>>

cvars == <<cons, n, fs, now, builds, calls, sinceChange, active, th, dirty>>

fvars == <<fpc, farg, fres>>

vars == <<wpc, ctxDone, ctxAtCall, ctxErr, gor, out, recvd, ret, via, outAtRet,
          lpc, cpu, memory, lres,
          cons, n, fs, now, builds, calls, sinceChange, active, th, dirty,
          fpc, farg, fres>>

(***************************************************************************)
(* waitForPodRunning                                                       *)
(***************************************************************************)

\* Bound: the number of loop iterations (fetch goroutines) of one call.
MaxFetch == 3

\* api.PodPhase values (spec.md section 3; k8s api constants used on lines 68-78).
PodPending == "Pending"
PodRunning == "Running"
PodSucceeded == "Succeeded"
PodFailed == "Failed"
PodUnknown == "Unknown"
PodPhases == {PodPending, PodRunning, PodSucceeded, PodFailed, PodUnknown}

\* error values
NoErr == "nil"
GetErrors == {"ErrGetA", "ErrGetB"}
ErrAlreadySucceeded == "pod already succeeded before it begins running"
ErrStatusFailed == "pod status is failed"
CtxErrors == {"context canceled", "context deadline exceeded"}

NoRet == <<"none", "none">>

\* type resp struct { done; phase; err }
resp(done, phase, err) == [done |-> done, phase |-> phase, err |-> err]
NoResp == [done |-> FALSE, phase |-> "none", err |-> "none"]

\* What c.Pods(ns).Get(name) can deliver: an error, or a pod in some phase.
GetOutcomes == [err : GetErrors, phase : {"none"}] \cup [err : {NoErr}, phase : PodPhases]

NoOutcome == [err |-> "none", phase |-> "none"]

\* The goroutine's switch over the outcome of Get (lines 67-83): the resp it
\* will send.
\* Variant: every fetched phase takes the default case.
respMutDefaultAll(o) ==
    IF o.err # NoErr THEN resp(TRUE, PodUnknown, o.err)
    ELSE resp(FALSE, o.phase, NoErr)
\* Variant: the error is dropped from the failing cases.
respMutFailedNil(o) ==
    IF o.err # NoErr THEN resp(TRUE, PodUnknown, NoErr)
    ELSE IF o.phase = PodRunning THEN resp(TRUE, o.phase, NoErr)
    ELSE IF o.phase = PodSucceeded THEN resp(TRUE, o.phase, ErrAlreadySucceeded)
    ELSE IF o.phase = PodFailed THEN resp(TRUE, o.phase, NoErr)
    ELSE resp(FALSE, o.phase, NoErr)
\* Variant: a case for PodUnknown that ends the wait.
respMutUnknownTerminal(o) ==
    IF o.err # NoErr THEN resp(TRUE, PodUnknown, o.err)
    ELSE IF o.phase = PodRunning THEN resp(TRUE, o.phase, NoErr)
    ELSE IF o.phase = PodSucceeded THEN resp(TRUE, o.phase, ErrAlreadySucceeded)
    ELSE IF o.phase = PodFailed THEN resp(TRUE, o.phase, ErrStatusFailed)
    ELSE IF o.phase = PodUnknown THEN resp(TRUE, o.phase, NoErr)
    ELSE resp(FALSE, o.phase, NoErr)
respOf(o) ==
    IF o.err # NoErr THEN resp(TRUE, PodUnknown, o.err)
    ELSE IF o.phase = PodRunning THEN resp(TRUE, o.phase, NoErr)
    ELSE IF o.phase = PodSucceeded THEN resp(TRUE, o.phase, ErrAlreadySucceeded)
    ELSE IF o.phase = PodFailed THEN resp(TRUE, o.phase, ErrStatusFailed)
    ELSE resp(FALSE, o.phase, NoErr)

\* The value returned by the select's ctx.Done() case (line 92).
\* Variant: the context's error is not returned.
cancelRetMutNil(e) == <<PodUnknown, NoErr>>
cancelRet(e) == <<PodUnknown, e>>

\* Whether the select's ctx.Done() case can proceed (line 91).
\* Variant: the case waits for the outstanding fetch.
cancelReadyMutWaits(done, g) == done /\ g # <<>> /\ g[Len(g)].st \in {"send", "exited"}
cancelReady(done, g) == done

\* State at the call of waitForPodRunning: no goroutine yet; the context may
\* already be cancelled.
WInit ==
    /\ wpc = "loop"
    /\ ctxDone \in BOOLEAN
    /\ ctxAtCall = ctxDone
    /\ ctxErr \in CtxErrors
    /\ gor = <<>>
    /\ out = <<>>
    /\ recvd = <<>>
    /\ ret = NoRet
    /\ via = "none"
    /\ outAtRet = 0

\* Entering the select evaluates its channel operand (lines 62-86): errc is
\* made and the fetch goroutine is started, before any case is looked at.
Launch ==
    /\ wpc = "loop"
    /\ Len(gor) < MaxFetch
    /\ gor' = Append(gor, [st |-> "get", o |-> NoOutcome, r |-> NoResp])
    /\ wpc' = "select"
    /\ UNCHANGED <<ctxDone, ctxAtCall, ctxErr, out, recvd, ret, via, outAtRet, lvars, cvars, fvars>>

\* The goroutine's Get returns (line 66) and the switch picks the resp
\* (lines 67-79); a non-terminal phase goes on to print and sleep.
GetReturns(i) ==
    /\ gor[i].st = "get"
    /\ \E o \in GetOutcomes :
         LET r == respOf(o) IN
         gor' = [gor EXCEPT ![i] = [st |-> IF r.done THEN "send" ELSE "print",
                                    o |-> o, r |-> r]]
    /\ UNCHANGED <<wpc, ctxDone, ctxAtCall, ctxErr, out, recvd, ret, via, outAtRet, lvars, cvars, fvars>>

\* fmt.Fprintf(out, "Waiting for pod ...") (line 80).
Fprintf(i) ==
    /\ gor[i].st = "print"
    /\ out' = Append(out, gor[i].r.phase)
    /\ gor' = [gor EXCEPT ![i].st = "sleep"]
    /\ UNCHANGED <<wpc, ctxDone, ctxAtCall, ctxErr, recvd, ret, via, outAtRet, lvars, cvars, fvars>>

\* time.Sleep(1 * time.Second) is over; the goroutine reaches its send (lines 81-82).
Sleep(i) ==
    /\ gor[i].st = "sleep"
    /\ gor' = [gor EXCEPT ![i].st = "send"]
    /\ UNCHANGED <<wpc, ctxDone, ctxAtCall, ctxErr, out, recvd, ret, via, outAtRet, lvars, cvars, fvars>>

\* Variant of the select's first case: the loop goes on without a value
\* having been received.
RecvMutNoWait ==
    /\ wpc = "select"
    /\ wpc' = "loop"
    /\ UNCHANGED <<ctxDone, ctxAtCall, ctxErr, gor, out, recvd, ret, via, outAtRet,
                   lvars, cvars, fvars>>

\* The select's first case: the caller receives from this iteration's errc
\* (unbuffered, so the sender must be at its send), then lines 87-90.
Recv ==
    /\ wpc = "select"
    /\ gor[Len(gor)].st = "send"
    /\ LET r == gor[Len(gor)].r IN
         /\ recvd' = Append(recvd, r)
         /\ gor' = [gor EXCEPT ![Len(gor)].st = "sent"]
         /\ IF r.done
              THEN /\ ret' = <<r.phase, r.err>>
                   /\ via' = "fetch"
                   /\ wpc' = "returned"
                   /\ outAtRet' = Len(out)
              ELSE /\ wpc' = "loop"
                   /\ UNCHANGED <<ret, via, outAtRet, lvars, cvars, fvars>>
    /\ UNCHANGED <<ctxDone, ctxAtCall, ctxErr, out, lvars, cvars, fvars>>

\* defer close(errc): the goroutine ends after its send completed (line 65).
Close(i) ==
    /\ gor[i].st = "sent"
    /\ gor' = [gor EXCEPT ![i].st = "exited"]
    /\ UNCHANGED <<wpc, ctxDone, ctxAtCall, ctxErr, out, recvd, ret, via, outAtRet, lvars, cvars, fvars>>

\* The select's second case (lines 91-92). When both cases can proceed the
\* Go runtime picks either: Recv and SelectCancel are then both enabled.
SelectCancel ==
    /\ wpc = "select"
    /\ cancelReady(ctxDone, gor)
    /\ ret' = cancelRet(ctxErr)
    /\ via' = "cancel"
    /\ wpc' = "returned"
    /\ outAtRet' = Len(out)
    /\ UNCHANGED <<ctxDone, ctxAtCall, ctxErr, gor, out, recvd, lvars, cvars, fvars>>

\* The caller's context is cancelled or its deadline passes.
Cancel ==
    /\ wpc # "off"
    /\ ~ctxDone
    /\ ctxDone' = TRUE
    /\ UNCHANGED <<wpc, ctxAtCall, ctxErr, gor, out, recvd, ret, via, outAtRet, lvars, cvars, fvars>>

\* limits is not running.
LIdle ==
    /\ lpc = "off"
    /\ cpu = <<>>
    /\ memory = <<>>
    /\ lres = <<>>

\* No client exists.
CIdle ==
    /\ cons = [ok |-> FALSE, asBuilt |-> FALSE, err |-> "none", URL |-> <<>>]
    /\ n = <<>>
    /\ fs = <<>>
    /\ now = 1
    /\ builds = 0
    /\ calls = 0
    /\ sinceChange = 0
    /\ active = {}
    /\ th = <<>>
    /\ dirty = FALSE

\* No pure function is being applied.
FIdle ==
    /\ fpc = "off"
    /\ farg = <<>>
    /\ fres = <<>>

NextWait ==
    \/ Launch
    \/ \E i \in 1..Len(gor) : GetReturns(i)
    \/ \E i \in 1..Len(gor) : Fprintf(i)
    \/ \E i \in 1..Len(gor) : Sleep(i)
    \/ Recv
    \/ \E i \in 1..Len(gor) : Close(i)
    \/ SelectCancel
    \/ Cancel

InitWait == WInit /\ LIdle /\ CIdle /\ FIdle

SpecWait == InitWait /\ [][NextWait]_vars

(***************************************************************************)
(* Properties of waitForPodRunning                                         *)
(***************************************************************************)

\* The caller has received goroutine i's resp.
Delivered(i) == gor[i].st \in {"sent", "exited"}
\* Get of goroutine i has returned.
Fetched(i) == gor[i].o # NoOutcome
\* Get of goroutine i reported this phase, without error.
Reported(i, ph) == gor[i].o.err = NoErr /\ gor[i].o.phase = ph
TerminalPhases == {PodRunning, PodSucceeded, PodFailed}
TerminalOutcome(i) ==
    Fetched(i) /\ (gor[i].o.err # NoErr \/ gor[i].o.phase \in TerminalPhases)

\* C1 as stated: called with an already cancelled context, waitForPodRunning
\* returns (Unknown, ctx.Err()) and launches no fetch at all.
C1_NoFetchWhenCancelled ==
    ctxAtCall =>
        /\ Len(gor) = 0
        /\ (wpc = "returned" => ret = <<PodUnknown, ctxErr>>)

\* C1 amended: called with an already cancelled context, waitForPodRunning
\* still launches the iteration's fetch before it looks at the context; its
\* select never blocks (the ctx.Done() case can always proceed), and it
\* returns (Unknown, ctx.Err()) unless the select received a fetch result.
C1_CancelledAtCall ==
    ctxAtCall =>
        /\ (wpc \in {"select", "returned"} => Len(gor) >= 1)
        /\ (wpc = "select" => ENABLED SelectCancel)
        /\ (wpc = "returned" /\ via = "cancel" => ret = <<PodUnknown, ctxErr>>)
        /\ (wpc = "returned" /\ recvd = <<>> =>
                via = "cancel" /\ ret = <<PodUnknown, ctxErr>>)

C1_Witness ==
    /\ ctxAtCall
    /\ wpc = "returned"
    /\ via = "cancel"
    /\ Len(gor) = 1
    /\ gor[1].st = "get"

C3_CancelImmediate ==
    /\ (wpc = "select" /\ ctxDone) => ENABLED SelectCancel
    /\ via = "cancel" =>
          /\ wpc = "returned"
          /\ ret = <<PodUnknown, ctxErr>>
          /\ ~Delivered(Len(gor))

C3_Witness ==
    /\ ~ctxAtCall
    /\ via = "cancel"
    /\ gor[Len(gor)].st = "send"
    /\ Reported(Len(gor), PodRunning)

\* C4 as stated: a fetch is followed by another fetch only if it reported
\* Pending, and no fetch follows a terminal outcome.
C4_OnlyPendingRetries ==
    \A i \in 1..Len(gor) :
        /\ (i < Len(gor) => Reported(i, PodPending))
        /\ (TerminalOutcome(i) => i = Len(gor))

\* C4 amended: no fetch follows a fetch with a terminal outcome (an error,
\* Running, Succeeded or Failed); every other fetched phase (Pending, but
\* also Unknown) makes the loop retry once its resp is received.
C4_RetryOnlyNonTerminal ==
    \A i \in 1..Len(gor) :
        /\ (i < Len(gor) =>
               Delivered(i) /\ gor[i].o.err = NoErr /\ gor[i].o.phase \notin TerminalPhases)
        /\ (TerminalOutcome(i) => i = Len(gor) /\ wpc # "loop")
        /\ (Delivered(i) /\ ~TerminalOutcome(i) => (i < Len(gor) \/ wpc = "loop"))

C4_Witness ==
    /\ Len(gor) >= 2
    /\ Reported(1, PodUnknown)
    /\ Delivered(1)

\* C5: a received fetch that failed makes the call return (Unknown, that
\* fetch's error); a received fetch that reported Failed makes it return
\* (Failed, a non-nil error); the call has then stopped.
C5_FetchErrorAndFailed ==
    \A i \in 1..Len(gor) :
        /\ (Delivered(i) /\ Fetched(i) /\ gor[i].o.err # NoErr) =>
              (wpc = "returned" /\ i = Len(gor) /\ ret = <<PodUnknown, gor[i].o.err>>)
        /\ (Delivered(i) /\ Reported(i, PodFailed)) =>
              ( /\ wpc = "returned"
                /\ i = Len(gor)
                /\ ret[1] = PodFailed
                /\ ret[2] = ErrStatusFailed
                /\ ret[2] # NoErr )

C5_Witness ==
    /\ wpc = "returned"
    /\ Len(gor) = 2
    /\ Reported(1, PodPending)
    /\ gor[2].o.err = "ErrGetB"
    /\ ret = <<PodUnknown, "ErrGetB">>

\* Goroutine i has not yet handed over its resp.
InProgress(i) == gor[i].st \in {"get", "print", "sleep", "send"}

\* C15: at most one fetch is in progress; when a fetch is issued every
\* earlier one has delivered its resp, and the resps received are those of
\* the fetches in the order they were issued.
C15_SingleFlight ==
    /\ Cardinality({i \in 1..Len(gor) : InProgress(i)}) <= 1
    /\ \A i \in 1..(Len(gor) - 1) : Delivered(i)
    /\ Len(recvd) <= Len(gor)
    /\ \A i \in 1..Len(gor) : Delivered(i) <=> i <= Len(recvd)
    /\ \A i \in 1..Len(recvd) : recvd[i] = gor[i].r

\* A third fetch is in progress after two Pending resps were received.
C15_Witness ==
    /\ Len(gor) = 3
    /\ Len(recvd) = 2
    /\ gor[3].st = "get"
    /\ Delivered(1) /\ Delivered(2)

\* C18 as stated: every fetch goroutine terminates, so none is left at its
\* send (line 69, 74, 76, 78 or 82) once the waiter, the only receiver of
\* its channel, has returned.
C18_NoStrandedSender ==
    \A i \in 1..Len(gor) : gor[i].st = "send" => wpc # "returned"

\* C19 as stated: once waitForPodRunning has returned, the progress sink
\* holds exactly the lines it held at the return.
C19_NoWriteAfterReturn ==
    wpc = "returned" => Len(out) = outAtRet

(***************************************************************************)
(* limits                                                                  *)
(***************************************************************************)

\* Bound: the length of the cpu and memory strings.
MaxQtyLen == 3

\* The characters the argument strings are drawn from: a digit, the milli
\* suffix, the mega suffix and the "i" of a binary suffix.
QtyAlphabet == {"5", "m", "M", "i"}
QtyDigits == {"5"}
QtyStrings == UNION {[1..k -> QtyAlphabet] : k \in 0..MaxQtyLen}

\* The suffixes resource.ParseQuantity accepts, among those the alphabet can
\* spell: none, milli, mega (decimal SI) and mebi (binary SI).
QtySuffixes == {<<>>, <<"m">>, <<"M">>, <<"M", "i">>}

\* The number of leading digits of s.
RECURSIVE LeadingDigits(_)
LeadingDigits(s) ==
    IF s = <<>> \/ s[1] \notin QtyDigits THEN 0
    ELSE 1 + LeadingDigits(Tail(s))

\* The decimal value of a string of digits.
RECURSIVE DigitsValue(_)
DigitsValue(s) ==
    IF s = <<>> THEN 0
    ELSE 10 * DigitsValue(SubSeq(s, 1, Len(s) - 1)) + 5

\* resource.ParseQuantity (called on line 110): a number followed by one
\* of the suffixes; anything else is an error.
ParseQuantity(s) ==
    LET k == LeadingDigits(s)
        suffix == SubSeq(s, k + 1, Len(s))
    IN IF k = 0 \/ suffix \notin QtySuffixes
         THEN [ok |-> FALSE, q |-> <<>>]
         ELSE [ok |-> TRUE, q |-> <<DigitsValue(SubSeq(s, 1, k)), suffix>>]

NilQuantity == <<>>
ErrParse == "error parsing resource limit"

\* The closure parse (lines 105-114): (quantity or nil, error).
parse(s) ==
    IF Len(s) = 0 THEN <<NilQuantity, NoErr>>
    ELSE IF ~ParseQuantity(s).ok THEN <<NilQuantity, ErrParse>>
    ELSE <<ParseQuantity(s).q, NoErr>>

\* api.ResourceList: a map from resource name to quantity.
EmptyResourceList == [name \in {} |-> <<>>]
ResourceLimitsCPU == "cpu"
ResourceLimitsMemory == "memory"

\* limits (lines 101-134): (api.ResourceList, error).
limits(c, m) ==
    LET rCPU == parse(c)
        rMem == parse(m)
    IN IF rCPU[2] # NoErr THEN <<EmptyResourceList, NoErr>>
       ELSE IF rMem[2] # NoErr THEN <<EmptyResourceList, NoErr>>
       ELSE LET keys == (IF rCPU[1] # NilQuantity THEN {ResourceLimitsCPU} ELSE {})
                        \cup (IF rMem[1] # NilQuantity THEN {ResourceLimitsMemory} ELSE {})
            IN <<[name \in keys |-> IF name = ResourceLimitsCPU THEN rCPU[1] ELSE rMem[1]],
                 NoErr>>

\* The waiter is not running.
WIdle ==
    /\ wpc = "off"
    /\ ctxDone = FALSE
    /\ ctxAtCall = FALSE
    /\ ctxErr = "context canceled"
    /\ gor = <<>>
    /\ out = <<>>
    /\ recvd = <<>>
    /\ ret = NoRet
    /\ via = "none"
    /\ outAtRet = 0

LInit ==
    /\ lpc = "call"
    /\ cpu \in QtyStrings
    /\ memory \in QtyStrings
    /\ lres = <<>>

\* One call of limits(cpu, memory).
limitsCall ==
    /\ lpc = "call"
    /\ lres' = limits(cpu, memory)
    /\ lpc' = "done"
    /\ UNCHANGED <<cpu, memory, wvars, cvars, fvars>>

NextLimits == limitsCall

InitLimits == LInit /\ WIdle /\ CIdle /\ FIdle

SpecLimits == InitLimits /\ [][NextLimits]_vars

\* A non-empty string that is not a well-formed quantity.
Malformed(s) == Len(s) > 0 /\ ~ParseQuantity(s).ok

\* C7: limits returns a non-nil error whenever cpu or memory is a non-empty
\* string that is not a well-formed quantity.
C7_MalformedReported ==
    (lpc = "done" /\ (Malformed(cpu) \/ Malformed(memory))) => lres[2] # NoErr

(***************************************************************************)
(* The coordinator client                                                  *)
(***************************************************************************)

\* Bounds: the clock's range and the number of doJSON calls of a behaviour.
MaxTime == 2
MaxCalls == 2

\* Strings are sequences of tokens: single characters, and each scheme name
\* as one token.
EmptyStr == <<>>
SchemeTokens == {"http", "https", "ftp"}

RECURSIVE TrimRight(_, _)
\* strings.TrimRight(s, c) for a one-character cutset.
TrimRight(s, c) ==
    IF s # <<>> /\ s[Len(s)] = c THEN TrimRight(SubSeq(s, 1, Len(s) - 1), c)
    ELSE s

\* strings.HasSuffix.
HasSuffix(s, suffix) ==
    Len(s) >= Len(suffix) /\ SubSeq(s, Len(s) - Len(suffix) + 1, Len(s)) = suffix

\* fixCIURL without the HasSuffix test of line 199.
fixCIURLMutAlwaysAppend(url) ==
    TrimRight(url, "/") \o <<"/", "c", "i">>

\* fixCIURL (lines 197-203).
fixCIURL(url) ==
    LET u == TrimRight(url, "/")
    IN IF ~HasSuffix(u, <<"/", "c", "i">>) THEN u \o <<"/", "c", "i">> ELSE u

RECURSIVE TakeUntil(_, _)
\* The prefix of s before the first token in stops.
TakeUntil(s, stops) ==
    IF s = <<>> \/ s[1] \in stops THEN <<>>
    ELSE <<s[1]>> \o TakeUntil(Tail(s), stops)

\* url.Parse (called on line 206): an invalid escape ("%" not followed by
\* two hex digits) is an error; the scheme is what precedes the first ":",
\* the host what follows "//".
ParseURL(s) ==
    LET scheme == IF Len(s) >= 2 /\ s[1] \in SchemeTokens /\ s[2] = ":" THEN s[1] ELSE ""
        rest == IF scheme # "" THEN SubSeq(s, 3, Len(s)) ELSE s
        host == IF Len(rest) >= 2 /\ rest[1] = "/" /\ rest[2] = "/"
                  THEN TakeUntil(SubSeq(rest, 3, Len(rest)), {"/"})
                  ELSE <<>>
    IN [ok |-> \A i \in 1..Len(s) : s[i] # "%", Scheme |-> scheme, Host |-> host, String |-> s]

ErrParseURL == "invalid URL escape"
ErrScheme == "only http or https scheme supported"

NoTransport == <<>>
NoClient == <<>>
ZeroTime == 0

\* newClient (lines 205-228) for config = [URL, TLSCAFile] and the global
\* CertificateDirectory: [c, err].
\* Variant: skipVerify left at its zero value.
newClientMutVerify(config, CertificateDirectory) ==
    LET url == ParseURL(fixCIURL(config.URL) \o <<"/", "a", "p", "i", "/", "v", "1", "/">>)
    IN IF ~url.ok THEN [c |-> NoClient, err |-> ErrParseURL]
       ELSE IF url.Scheme # "http" /\ url.Scheme # "https"
         THEN [c |-> NoClient, err |-> ErrScheme]
       ELSE [c |-> [url |-> url,
                    caFile |-> IF CertificateDirectory # <<>> /\ config.TLSCAFile = <<>>
                                 THEN CertificateDirectory
                                        \o TakeUntil(url.Host, {":"}) \o <<".crt">>
                                 ELSE config.TLSCAFile,
                    caData |-> <<>>,
                    skipVerify |-> FALSE,
                    updateTime |-> ZeroTime,
                    Transport |-> NoTransport],
             err |-> NoErr]
\* Variant: without the scheme test of lines 211-214.
newClientMutAnyScheme(config, CertificateDirectory) ==
    LET url == ParseURL(fixCIURL(config.URL) \o <<"/", "a", "p", "i", "/", "v", "1", "/">>)
    IN IF ~url.ok THEN [c |-> NoClient, err |-> ErrParseURL]
       ELSE [c |-> [url |-> url,
                    caFile |-> IF CertificateDirectory # <<>> /\ config.TLSCAFile = <<>>
                                 THEN CertificateDirectory
                                        \o TakeUntil(url.Host, {":"}) \o <<".crt">>
                                 ELSE config.TLSCAFile,
                    caData |-> <<>>,
                    skipVerify |-> TRUE,
                    updateTime |-> ZeroTime,
                    Transport |-> NoTransport],
             err |-> NoErr]
newClient(config, CertificateDirectory) ==
    LET url == ParseURL(fixCIURL(config.URL) \o <<"/", "a", "p", "i", "/", "v", "1", "/">>)
    IN IF ~url.ok THEN [c |-> NoClient, err |-> ErrParseURL]
       ELSE IF url.Scheme # "http" /\ url.Scheme # "https"
         THEN [c |-> NoClient, err |-> ErrScheme]
       ELSE [c |-> [url |-> url,
                    caFile |-> IF CertificateDirectory # <<>> /\ config.TLSCAFile = <<>>
                                 THEN CertificateDirectory
                                        \o TakeUntil(url.Host, {":"}) \o <<".crt">>
                                 ELSE config.TLSCAFile,
                    caData |-> <<>>,
                    skipVerify |-> TRUE,
                    updateTime |-> ZeroTime,
                    Transport |-> NoTransport],
             err |-> NoErr]

\* The credentials (URL, TLSCAFile) and the global CertificateDirectory
\* clients are constructed with.
Setups ==
    { [URL |-> <<"http", ":", "/", "/", "h">>,
       TLSCAFile |-> <<>>, CertificateDirectory |-> <<>>],
      [URL |-> <<"https", ":", "/", "/", "h", "/">>,
       TLSCAFile |-> <<"ca.crt">>, CertificateDirectory |-> <<>>],
      [URL |-> <<"http", ":", "/", "/", "h", "/", "c", "i", "/">>,
       TLSCAFile |-> <<>>, CertificateDirectory |-> <<"/certs/">>],
      [URL |-> <<"ftp", ":", "/", "/", "h", "/", "c", "i">>,
       TLSCAFile |-> <<>>, CertificateDirectory |-> <<>>],
      [URL |-> <<"h", "/">>,
       TLSCAFile |-> <<"ca.crt">>, CertificateDirectory |-> <<>>],
      [URL |-> <<"https", ":", "/", "/", "h", "/", "%">>,
       TLSCAFile |-> <<"ca.crt">>, CertificateDirectory |-> <<>>] }

\* The CA file: absent, or [mtime, data]. Its data is a sequence of blocks:
\* PEM certificate blocks and anything else.
NoFile == <<>>
PEMBlock(raw) == <<"CERTIFICATE", raw>>
Junk == <<"junk">>
FileContents == { <<Junk>>, <<PEMBlock("rawA")>> }
Files == [mtime : 1..MaxTime, data : FileContents]

\* os.Stat(n.caFile) (line 41): fails for the empty path and a missing file.
Stat(caFile, file) ==
    IF caFile = <<>> \/ file = NoFile THEN [ok |-> FALSE, ModTime |-> ZeroTime]
    ELSE [ok |-> TRUE, ModTime |-> file.mtime]

\* The test "certificate got modified" of line 41.
\* Variant: !After instead of Before.
CertModifiedMutNotStrict(statOK, modTime, updateTime) == statOK /\ updateTime <= modTime
CertModified(statOK, modTime, updateTime) == statOK /\ updateTime < modTime

\* x509.CertPool.AppendCertsFromPEM (line 66): the certificates found in
\* data; it reports success if there is at least one.
CertsFromPEM(data) == {data[i][2] : i \in {j \in 1..Len(data) : data[j][1] = "CERTIFICATE"}}

\* Variant of createTransport that leaves the Transport field as it is.
createTransportOfMutNoAssign(c, file, id) == c

\* createTransport (lines 52-89): the client after it, the new transport
\* being the id-th one built.
createTransportOf(c, file, id) ==
    LET load == c.caFile # <<>> /\ ~c.skipVerify
        readOK == load /\ file # NoFile
        parsed == readOK /\ CertsFromPEM(file.data) # {}
    IN [c EXCEPT !.caData = IF parsed THEN file.data ELSE c.caData,
                 !.Transport = [id |-> id,
                                InsecureSkipVerify |-> c.skipVerify,
                                RootCAs |-> IF parsed THEN CertsFromPEM(file.data)
                                            ELSE {}]]

\* Certificates of a connection's verified chains: [Signature, Raw].
Cert(sig, raw) == [Signature |-> sig, Raw |-> raw]
NoTLS == <<>>
\* tls.ConnectionState.VerifiedChains of a verified connection.
VerifiedChainSets ==
    { << <<Cert("s1", "raw1"), Cert("s2", "raw2")>> >>,
      << <<Cert("s1", "raw1"), Cert("s2", "raw2")>>,
         <<Cert("s1", "raw1"), Cert("s3", "raw3")>> >> }

RECURSIVE Flatten(_)
\* The certificates of the chains, in chain order.
Flatten(chains) ==
    IF chains = <<>> THEN <<>> ELSE chains[1] \o Flatten(Tail(chains))

\* Lines 104-114 without the seenCertificates test.
DedupBySignatureMutKeepAll(certs, seen) == certs

RECURSIVE DedupBySignature(_, _)
\* Lines 104-114: keep a certificate unless its signature was seen.
DedupBySignature(certs, seen) ==
    IF certs = <<>> THEN <<>>
    ELSE IF certs[1].Signature \in seen THEN DedupBySignature(Tail(certs), seen)
    ELSE <<certs[1]>> \o DedupBySignature(Tail(certs), seen \cup {certs[1].Signature})

\* Lines 116-123: the PEM encoding of the certificates, concatenated.
PEMEncode(certs) == [i \in 1..Len(certs) |-> PEMBlock(certs[i].Raw)]

\* getCAChain (lines 91-124).
getCAChain(caData, tls) ==
    IF Len(caData) # 0 THEN caData
    ELSE IF tls = NoTLS THEN EmptyStr
    ELSE PEMEncode(DedupBySignature(Flatten(tls.VerifiedChains), {}))

\* The tls.ConnectionState of a response received through transport tr:
\* none over plain http; crypto/tls fills VerifiedChains only when
\* InsecureSkipVerify is off. A nil transport makes http.Client use
\* http.DefaultTransport, which verifies.
TLSStates(scheme, tr) ==
    IF scheme = "http" THEN {NoTLS}
    ELSE IF tr # NoTransport /\ tr.InsecureSkipVerify THEN {[VerifiedChains |-> <<>>]}
    ELSE {[VerifiedChains |-> ch] : ch \in VerifiedChainSets}

\* What n.Do(req) can deliver (line 149): an error, or a response.
NoRes == <<>>
StatusCodes == {200, 403}
ContentTypes == {"application/json", "text/html"}
Responses(scheme, tr) ==
    [StatusCode : StatusCodes, contentType : ContentTypes, bodyOK : BOOLEAN,
     TLS : TLSStates(scheme, tr)]
Status(code) == <<code, "status text">>

\* The arguments of a doJSON call. A thread keeps those that lines 177-194
\* still read once the request is on its way.
Inputs ==
    [uri : {"ok", "bad"}, request : {"nil", "ok", "unmarshalable"},
     response : {"nil", "target"}, statusCode : {200, 201}]
Kept(in) == [response |-> in.response, statusCode |-> in.statusCode]

ErrMarshal == "failed to marshal project object"
ErrDo == "couldn't execute"
ErrURI == "parse uri"
ErrContentType == "Server should return application/json"
ErrDecode == "Error decoding json payload"

\* doJSON after a response was received (lines 177-194).
\* Variant: the response is validated whatever its status.
doJSONResultMutNoStatusTest(in, res, caData) ==
    IF in.response # "nil"
      THEN IF res.contentType # "application/json" THEN <<-1, ErrContentType, EmptyStr>>
           ELSE IF ~res.bodyOK THEN <<-1, ErrDecode, EmptyStr>>
           ELSE <<res.StatusCode, Status(res.StatusCode), getCAChain(caData, res.TLS)>>
      ELSE <<res.StatusCode, Status(res.StatusCode), getCAChain(caData, res.TLS)>>
doJSONResult(in, res, caData) ==
    IF res.StatusCode = in.statusCode /\ in.response # "nil"
      THEN IF res.contentType # "application/json" THEN <<-1, ErrContentType, EmptyStr>>
           ELSE IF ~res.bodyOK THEN <<-1, ErrDecode, EmptyStr>>
           ELSE <<res.StatusCode, Status(res.StatusCode), getCAChain(caData, res.TLS)>>
      ELSE <<res.StatusCode, Status(res.StatusCode), getCAChain(caData, res.TLS)>>

Threads == {1, 2}
NoIn == <<>>
NoPre == <<>>
NoResult == <<>>
IdleThread ==
    [pc |-> "idle", in |-> NoIn, pre |-> NoPre, sentWith |-> NoTransport,
     res |-> NoRes, result |-> NoResult, stale |-> FALSE]

\* The state after construction: the client newClient returned (or none,
\* with its error), possibly with skipVerify cleared by its owner; the CA
\* file in any state.
CInit(callers) ==
    /\ \E su \in Setups, asBuilt \in BOOLEAN :
         LET r == newClient([URL |-> su.URL, TLSCAFile |-> su.TLSCAFile],
                            su.CertificateDirectory)
         IN /\ (r.err # NoErr => asBuilt)
            /\ cons = [ok |-> r.err = NoErr, asBuilt |-> asBuilt, err |-> r.err,
                        URL |-> su.URL]
            /\ n = IF r.err = NoErr /\ ~asBuilt THEN [r.c EXCEPT !.skipVerify = FALSE]
                   ELSE r.c
    /\ fs \in {NoFile} \cup Files
    /\ now = 1
    /\ builds = 0
    /\ calls = 0
    /\ sinceChange = 0
    /\ active = callers
    /\ th = [t \in Threads |-> IdleThread]
    /\ dirty = FALSE

\* doJSON is called (lines 157-176), up to do's request construction
\* (lines 127-145): a marshal failure or an unresolvable uri returns -1.
doJSONCall(t) ==
    /\ cons.ok
    /\ th[t].pc = "idle"
    /\ calls < MaxCalls
    /\ calls' = calls + 1
    /\ \E in \in Inputs :
         th' = [th EXCEPT ![t] =
                  IF in.request = "unmarshalable"
                    THEN [IdleThread EXCEPT !.pc = "done", !.in = Kept(in),
                                            !.result = <<-1, ErrMarshal, EmptyStr>>]
                  ELSE IF in.uri = "bad"
                    THEN [IdleThread EXCEPT !.pc = "done", !.in = Kept(in),
                                            !.result = <<-1, ErrURI, EmptyStr>>]
                  ELSE [IdleThread EXCEPT !.pc = "stat", !.in = Kept(in),
                                          !.stale = dirty]]
    /\ UNCHANGED <<cons, n, fs, now, builds, sinceChange, active, dirty, wvars, lvars, fvars>>

\* ensureTLSConfig, line 41: stat the CA file and compare with n.updateTime.
ensureStat(t) ==
    /\ th[t].pc = "stat"
    /\ LET st == Stat(n.caFile, fs)
       IN th' = [th EXCEPT ![t].pre = [T |-> n.Transport, u |-> n.updateTime,
                                        statOK |-> st.ok, ModTime |-> st.ModTime],
                           ![t].pc = IF CertModified(st.ok, st.ModTime, n.updateTime)
                                       THEN "clear" ELSE "check"]
    /\ sinceChange' = IF sinceChange < 2 THEN sinceChange + 1 ELSE 2
    /\ UNCHANGED <<cons, n, fs, now, builds, calls, active, dirty, wvars, lvars, fvars>>

\* ensureTLSConfig, line 42: n.Transport = nil.
ensureClear(t) ==
    /\ th[t].pc = "clear"
    /\ n' = [n EXCEPT !.Transport = NoTransport]
    /\ th' = [th EXCEPT ![t].pc = "check"]
    /\ UNCHANGED <<cons, fs, now, builds, calls, sinceChange, active, dirty, wvars, lvars, fvars>>

\* ensureTLSConfig, line 46: if n.Transport == nil.
ensureCheck(t) ==
    /\ th[t].pc = "check"
    /\ th' = [th EXCEPT ![t].pc = IF n.Transport = NoTransport THEN "stamp" ELSE "send"]
    /\ UNCHANGED <<cons, n, fs, now, builds, calls, sinceChange, active, dirty, wvars, lvars, fvars>>

\* ensureTLSConfig, line 47: n.updateTime = time.Now().
ensureStamp(t) ==
    /\ th[t].pc = "stamp"
    /\ n' = [n EXCEPT !.updateTime = now]
    /\ th' = [th EXCEPT ![t].pc = "create"]
    /\ UNCHANGED <<cons, fs, now, builds, calls, sinceChange, active, dirty, wvars, lvars, fvars>>

\* ensureTLSConfig, line 48: n.createTransport().
createTransport(t) ==
    /\ th[t].pc = "create"
    /\ n' = createTransportOf(n, fs, builds + 1)
    /\ builds' = builds + 1
    /\ th' = [th EXCEPT ![t].pc = "send", ![t].stale = FALSE]
    /\ dirty' = FALSE
    /\ UNCHANGED <<cons, fs, now, calls, sinceChange, active, wvars, lvars, fvars>>

\* do, line 149: n.Do(req) fails (lines 150-153, then doJSON lines 174-176).
doSendFails(t) ==
    /\ th[t].pc = "send"
    /\ th' = [th EXCEPT ![t].pc = "done", ![t].sentWith = n.Transport,
                        ![t].result = <<-1, ErrDo, EmptyStr>>]
    /\ UNCHANGED <<cons, n, fs, now, builds, calls, sinceChange, active, dirty, wvars, lvars, fvars>>

\* do, line 149: n.Do(req) delivers a response.
doSend(t) ==
    /\ th[t].pc = "send"
    /\ \E res \in Responses(n.url.Scheme, n.Transport) :
         th' = [th EXCEPT ![t].pc = "resp", ![t].sentWith = n.Transport, ![t].res = res]
    /\ UNCHANGED <<cons, n, fs, now, builds, calls, sinceChange, active, dirty, wvars, lvars, fvars>>

\* doJSON, lines 177-194: check and decode the response, read the chain.
doJSONFinish(t) ==
    /\ th[t].pc = "resp"
    /\ th' = [th EXCEPT ![t].pc = "done",
                        ![t].result = doJSONResult(th[t].in, th[t].res, n.caData)]
    /\ UNCHANGED <<cons, n, fs, now, builds, calls, sinceChange, active, dirty, wvars, lvars, fvars>>

\* The caller has taken doJSON's result.
doJSONReturn(t) ==
    /\ th[t].pc = "done"
    /\ th' = [th EXCEPT ![t] = IdleThread]
    /\ UNCHANGED <<cons, n, fs, now, builds, calls, sinceChange, active, dirty, wvars, lvars, fvars>>

\* Somebody writes the CA file (any content, any modification time).
WriteCA ==
    /\ cons.ok
    /\ n.caFile # <<>>
    /\ \E f \in Files : f # fs /\ fs' = f
    /\ sinceChange' = 0
    /\ dirty' = TRUE
    /\ UNCHANGED <<cons, n, now, builds, calls, active, th, wvars, lvars, fvars>>

\* Somebody removes the CA file.
RemoveCA ==
    /\ cons.ok
    /\ n.caFile # <<>>
    /\ fs # NoFile
    /\ fs' = NoFile
    /\ sinceChange' = 0
    /\ UNCHANGED <<cons, n, now, builds, calls, active, dirty, th, wvars, lvars, fvars>>

\* Time passes.
Tick ==
    /\ cons.ok
    /\ now < MaxTime
    /\ now' = now + 1
    /\ UNCHANGED <<cons, n, fs, builds, calls, sinceChange, active, dirty, th, wvars, lvars, fvars>>

NextClient ==
    \/ \E t \in active : doJSONCall(t)
    \/ \E t \in active : ensureStat(t)
    \/ \E t \in active : ensureClear(t)
    \/ \E t \in active : ensureCheck(t)
    \/ \E t \in active : ensureStamp(t)
    \/ \E t \in active : createTransport(t)
    \/ \E t \in active : doSendFails(t)
    \/ \E t \in active : doSend(t)
    \/ \E t \in active : doJSONFinish(t)
    \/ \E t \in active : doJSONReturn(t)
    \/ WriteCA
    \/ RemoveCA
    \/ Tick

\* One caller.
InitClient == CInit({1}) /\ WIdle /\ LIdle /\ FIdle

SpecClient == InitClient /\ [][NextClient]_vars

(***************************************************************************)
(* Properties of the client with one caller                                *)
(***************************************************************************)

\* Thread t's doJSON call has its result.
AtDone(t) == th[t].pc = "done"
\* n.Do delivered a response to thread t's call.
ResponseReceived(t) == th[t].res # NoRes
\* The response has the expected status and a response target was given,
\* but its content type is not JSON or its body does not decode.
Rejected(t) ==
    /\ th[t].res.StatusCode = th[t].in.statusCode
    /\ th[t].in.response # "nil"
    /\ (th[t].res.contentType # "application/json" \/ ~th[t].res.bodyOK)

\* C6 as stated: doJSON's status code is negative for every client-side
\* failure and non-negative whenever a response was received.
C6_SignOfStatus ==
    \A t \in active :
        AtDone(t) =>
            /\ (~ResponseReceived(t) => th[t].result[1] < 0)
            /\ (ResponseReceived(t) => th[t].result[1] >= 0)

\* C6 amended: the status code is -1 for every client-side failure, and
\* also for a received response with the expected status whose content type
\* is not application/json or whose body does not decode into the response
\* target; every other received response, a mismatched status included,
\* returns the response's own non-negative status code.
C6_StatusCode ==
    \A t \in active :
        AtDone(t) =>
            /\ (~ResponseReceived(t) => th[t].result[1] = -1)
            /\ (ResponseReceived(t) /\ Rejected(t) => th[t].result[1] = -1)
            /\ (ResponseReceived(t) /\ ~Rejected(t) =>
                    /\ th[t].result[1] = th[t].res.StatusCode
                    /\ th[t].result[1] >= 0)

C6_Witness ==
    /\ AtDone(1)
    /\ ResponseReceived(1)
    /\ th[1].res.StatusCode = 403
    /\ th[1].in.statusCode = 200
    /\ th[1].in.response = "target"
    /\ th[1].res.contentType = "text/html"
    /\ th[1].result[1] = 403

\* The state in which ensureTLSConfig has just returned to thread t.
AfterEnsure(t) == th[t].pc = "send"
\* The rebuild condition as of the call's entry: no transport, or the CA
\* file was stat'ed and its modification time is after n.updateTime.
MustRebuild(t) ==
    \/ th[t].pre.T = NoTransport
    \/ th[t].pre.statOK /\ th[t].pre.u < th[t].pre.ModTime

\* C8: ensureTLSConfig replaces the transport (by a newly built one) if and
\* only if there was none or the CA file's modification time is strictly
\* after the last build time; otherwise (a CA file that cannot be stat'ed
\* included) the transport and the build time are as they were.
C8_RebuildIff ==
    \A t \in active :
        AfterEnsure(t) =>
            /\ (n.Transport # th[t].pre.T) <=> MustRebuild(t)
            /\ n.Transport # NoTransport
            /\ MustRebuild(t) =>
                 /\ n.Transport.id = builds
                 /\ (th[t].pre.T # NoTransport => th[t].pre.T.id < builds)
            /\ ~MustRebuild(t) =>
                 /\ n.Transport = th[t].pre.T
                 /\ n.updateTime = th[t].pre.u

C8_Witness ==
    /\ AfterEnsure(1)
    /\ th[1].pre.T # NoTransport
    /\ th[1].pre.statOK
    /\ th[1].pre.u < th[1].pre.ModTime
    /\ n.Transport.id = th[1].pre.T.id + 1

\* C9: of two consecutive ensureTLSConfig calls with no change to the CA
\* file since the first began, the second leaves the transport untouched.
C9_SecondCallNoRebuild ==
    \A t \in active :
        (AfterEnsure(t) /\ sinceChange = 2) => n.Transport = th[t].pre.T

\* C10 as stated: on a client as newClient built it, a doJSON call that got
\* a response returns a non-empty certificate chain.
C10_ChainAlwaysReturned ==
    \A t \in active :
        (AtDone(t) /\ cons.asBuilt /\ ResponseReceived(t) /\ th[t].result[1] >= 0)
            => th[t].result[3] # EmptyStr

\* C10 amended: doJSON's third result is empty for every client-side
\* failure; it is non-empty only for a received response when CA bytes are
\* cached or the connection has verified chains; on a client as newClient
\* built it (skipVerify set) no CA bytes are ever cached and no chain is
\* verified, so the third result is always empty.
C10_ChainOnlyWhenVerified ==
    \A t \in active :
        AtDone(t) =>
            /\ (th[t].result[1] < 0 => th[t].result[3] = EmptyStr)
            /\ (cons.asBuilt => th[t].result[3] = EmptyStr /\ n.caData = <<>>)
            /\ (th[t].result[3] # EmptyStr =>
                    /\ ResponseReceived(t)
                    /\ \/ n.caData # <<>>
                       \/ /\ th[t].res.TLS # NoTLS
                          /\ th[t].res.TLS.VerifiedChains # <<>>)

C10_Witness ==
    /\ AtDone(1)
    /\ cons.asBuilt
    /\ n.url.Scheme = "https"
    /\ n.caFile # <<>>
    /\ fs # NoFile
    /\ ResponseReceived(1)
    /\ th[1].res.StatusCode = th[1].in.statusCode
    /\ th[1].result[1] = 200
    /\ th[1].result[3] = EmptyStr

\* C16 as stated: when the single caller's request is about to be sent
\* (ensureTLSConfig has returned in this call), the transport is not nil
\* and no write of the CA file that preceded the call is later than the
\* transport's build.
C16_SentOnCurrentTransport ==
    \A t \in active :
        AfterEnsure(t) => (n.Transport # NoTransport /\ ~th[t].stale)

doCall(t) ==
    /\ cons.ok
    /\ th[t].pc = "idle"
    /\ calls < MaxCalls
    /\ calls' = calls + 1
    /\ th' = [th EXCEPT ![t] = [IdleThread EXCEPT !.pc = "stat", !.stale = dirty]]
    /\ UNCHANGED <<cons, n, fs, now, builds, sinceChange, active, dirty, wvars, lvars, fvars>>

\* do, lines 149-154: n.Do(req) with the transport the field holds now, and
\* the return to the caller.
doDo(t) ==
    /\ th[t].pc = "send"
    /\ th' = [th EXCEPT ![t] = IdleThread]
    /\ UNCHANGED <<cons, n, fs, now, builds, calls, sinceChange, active, dirty, wvars, lvars, fvars>>

NextRace ==
    \/ \E t \in active : doCall(t)
    \/ \E t \in active : ensureStat(t)
    \/ \E t \in active : ensureClear(t)
    \/ \E t \in active : ensureCheck(t)
    \/ \E t \in active : ensureStamp(t)
    \/ \E t \in active : createTransport(t)
    \/ \E t \in active : doDo(t)
    \/ WriteCA
    \/ RemoveCA
    \/ Tick

\* Two callers share a client as newClient built it for an https URL with
\* a CA file.
InitRace ==
    /\ CInit({1, 2})
    /\ cons.ok /\ cons.asBuilt
    /\ cons.URL = <<"https", ":", "/", "/", "h", "/">>
    /\ WIdle /\ LIdle /\ FIdle

SpecRace == InitRace /\ [][NextRace]_vars

\* Thread u found the CA file modified on line 41 and is between the
\* clearing of the Transport field (line 42) and its replacement (line 48).
InReplace(u) ==
    /\ th[u].pc \in {"check", "stamp", "create"}
    /\ CertModified(th[u].pre.statOK, th[u].pre.ModTime, th[u].pre.u)

\* C17: with two threads the Transport field can be nil when a thread's
\* request is sent, and it is then the other thread that has cleared it and
\* not yet replaced it; no call builds more than once, so two builds for
\* one change of the CA file are the builds of two calls that both saw it.
C17_NilOnlyInOthersWindow ==
    /\ \A t \in active :
          (AfterEnsure(t) /\ n.Transport = NoTransport) =>
              \E u \in active \ {t} : InReplace(u)
    /\ builds <= calls

\* Thread 1 is about to send while thread 2 has cleared the Transport field;
\* thread 1 has built for the only write of the CA file, and thread 2,
\* whose call started before that build, is about to build for it again.
C17_Witness ==
    /\ AfterEnsure(1)
    /\ n.Transport = NoTransport
    /\ th[2].pc = "create"
    /\ th[2].stale
    /\ builds = 1
    /\ ~dirty

\* The URL newClient parses (line 206) for the credentials' URL.
APIURL(URL) == ParseURL(fixCIURL(URL) \o <<"/", "a", "p", "i", "/", "v", "1", "/">>)

\* C14: construction with a URL whose scheme after normalisation is neither
\* http nor https (ftp, or none) yields an error and no client; no transport
\* is ever built and no request is ever sent.
C14_BadSchemeNoClient ==
    (APIURL(cons.URL).Scheme \notin {"http", "https"}) =>
      /\ ~cons.ok
      /\ cons.err # NoErr
      /\ (APIURL(cons.URL).ok => cons.err = ErrScheme)
      /\ n = NoClient
      /\ builds = 0
      /\ \A t \in Threads : th[t] = IdleThread
      /\ ~ENABLED NextClient

\* newClient was called with an ftp URL.
C14_Witness ==
    /\ cons.URL = <<"ftp", ":", "/", "/", "h", "/", "c", "i">>
    /\ ~cons.ok
    /\ cons.err = ErrScheme

(***************************************************************************)
(* fixCIURL on every short string                                          *)
(***************************************************************************)

MaxURLLen == 4
\* Characters of the argument: those of the suffix and one other.
URLAlphabet == {"/", "c", "i", "h"}
URLStrings == UNION {[1..len -> URLAlphabet] : len \in 0..MaxURLLen}

\* fixCIURL is about to be called on any short string.
UInit ==
    /\ fpc = "fixCIURL"
    /\ farg \in URLStrings
    /\ fres = <<>>

\* fixCIURL(url).
fixCall ==
    /\ fpc = "fixCIURL"
    /\ fres' = <<fixCIURL(farg)>>
    /\ fpc' = "fixCIURL again"
    /\ UNCHANGED <<farg, wvars, lvars, cvars>>

\* fixCIURL applied to its own result.
fixAgain ==
    /\ fpc = "fixCIURL again"
    /\ fres' = Append(fres, fixCIURL(fres[1]))
    /\ fpc' = "done"
    /\ UNCHANGED <<farg, wvars, lvars, cvars>>

NextURL == fixCall \/ fixAgain

InitURL == UInit /\ WIdle /\ LIdle /\ CIdle

SpecURL == InitURL /\ [][NextURL]_vars

\* s is u without its trailing slashes.
IsStem(s, u) ==
    /\ Len(s) <= Len(u)
    /\ s = SubSeq(u, 1, Len(s))
    /\ (s # <<>> => s[Len(s)] # "/")
    /\ \A j \in Len(s) + 1 .. Len(u) : u[j] = "/"

\* s ends with the segment "/ci".
EndsWithCI(s) ==
    /\ Len(s) >= 3
    /\ s[Len(s) - 2] = "/" /\ s[Len(s) - 1] = "c" /\ s[Len(s)] = "i"

\* C11: fixCIURL(u) does not end with a slash and ends with "/ci"; it is u
\* without its trailing slashes when that already ends with "/ci", and that
\* followed by one "/ci" otherwise (the suffix is appended at most once and
\* never doubled by the call); and fixCIURL(fixCIURL(u)) = fixCIURL(u).
C11_Idempotent ==
    /\ Len(fres) >= 1 =>
          /\ EndsWithCI(fres[1])
          /\ fres[1][Len(fres[1])] # "/"
          /\ \E s \in URLStrings :
                /\ IsStem(s, farg)
                /\ fres[1] = IF EndsWithCI(s) THEN s ELSE s \o <<"/", "c", "i">>
    /\ Len(fres) = 2 => fres[2] = fres[1]

\* fixCIURL was applied twice to "/ci/": trailing slash and suffix present.
C11_Witness ==
    /\ fpc = "done"
    /\ farg = <<"/", "c", "i", "/">>
    /\ fres = << <<"/", "c", "i">>, <<"/", "c", "i">> >>

(***************************************************************************)
(* getKubeClientConfig                                                     *)
(***************************************************************************)

\* Values of a configuration field: unset, or one of two names.
KubeValues == {<<>>, <<"a">>, <<"b">>}
KubernetesConfigs == [CertFile : KubeValues, KeyFile : KubeValues,
                      CAFile : KubeValues, Host : KubeValues]
NilConfig == "nil"
ErrFileAuth == "ca file, cert file and key file must be specified when using file based auth"
ErrNotInCluster == "unable to load in-cluster configuration"
\* What restclient.InClusterConfig() can return: the configuration found in
\* the pod's environment, or its error.
InClusterOutcomes ==
    {[config |-> "in-cluster", err |-> NoErr],
     [config |-> NilConfig, err |-> ErrNotInCluster]}
\* restclient.Config, its fields that getKubeClientConfig sets.
RestConfig(host, cert, key, ca) ==
    [Host |-> host, CertFile |-> cert, KeyFile |-> key, CAFile |-> ca]

\* getKubeClientConfig with the cases of lines 19 and 32 exchanged.
getKubeClientConfigMutHostFirst(config, inCluster) ==
    IF Len(config.Host) > 0
      THEN [config |-> RestConfig(config.Host, <<>>, <<>>, <<>>), err |-> NoErr,
            delegated |-> FALSE]
    ELSE IF Len(config.CertFile) > 0
      THEN IF Len(config.KeyFile) = 0 \/ Len(config.CAFile) = 0
             THEN [config |-> NilConfig, err |-> ErrFileAuth, delegated |-> FALSE]
           ELSE [config |-> RestConfig(config.Host, config.CertFile, config.KeyFile,
                                       config.CAFile),
                 err |-> NoErr, delegated |-> FALSE]
    ELSE [config |-> inCluster.config, err |-> inCluster.err, delegated |-> TRUE]

\* getKubeClientConfig (lines 17-38); inCluster is what InClusterConfig()
\* returns if called, delegated records that it was called.
getKubeClientConfig(config, inCluster) ==
    IF Len(config.CertFile) > 0
      THEN IF Len(config.KeyFile) = 0 \/ Len(config.CAFile) = 0
             THEN [config |-> NilConfig, err |-> ErrFileAuth, delegated |-> FALSE]
           ELSE [config |-> RestConfig(config.Host, config.CertFile, config.KeyFile,
                                       config.CAFile),
                 err |-> NoErr, delegated |-> FALSE]
    ELSE IF Len(config.Host) > 0
      THEN [config |-> RestConfig(config.Host, <<>>, <<>>, <<>>), err |-> NoErr,
            delegated |-> FALSE]
    ELSE [config |-> inCluster.config, err |-> inCluster.err, delegated |-> TRUE]

\* getKubeClientConfig is about to be called on any configuration.
KInit ==
    /\ fpc = "getKubeClientConfig"
    /\ farg \in KubernetesConfigs
    /\ fres = <<>>

\* getKubeClientConfig(config).
kubeCall ==
    /\ fpc = "getKubeClientConfig"
    /\ \E inCluster \in InClusterOutcomes :
         fres' = getKubeClientConfig(farg, inCluster)
    /\ fpc' = "done"
    /\ UNCHANGED <<farg, wvars, lvars, cvars>>

NextKube == kubeCall

InitKube == KInit /\ WIdle /\ LIdle /\ CIdle

SpecKube == InitKube /\ [][NextKube]_vars

\* C12: with a cert file set the result is file-based auth, an error and no
\* config unless key file and CA file are both set; otherwise with a host
\* set it is a config carrying only the host; in-cluster discovery is used
\* exactly when neither cert file nor host is set.
C12_Precedence ==
    fpc = "done" =>
      /\ farg.CertFile # <<>> =>
            IF farg.KeyFile = <<>> \/ farg.CAFile = <<>>
              THEN fres.err = ErrFileAuth /\ fres.config = NilConfig
              ELSE /\ fres.err = NoErr
                   /\ fres.config = [Host |-> farg.Host, CertFile |-> farg.CertFile,
                                      KeyFile |-> farg.KeyFile, CAFile |-> farg.CAFile]
      /\ (farg.CertFile = <<>> /\ farg.Host # <<>>) =>
            /\ fres.err = NoErr
            /\ fres.config = [Host |-> farg.Host, CertFile |-> <<>>,
                               KeyFile |-> <<>>, CAFile |-> <<>>]
      /\ fres.delegated <=> (farg.CertFile = <<>> /\ farg.Host = <<>>)
      /\ fres.delegated =>
            [config |-> fres.config, err |-> fres.err] \in InClusterOutcomes

\* A cert file without a key file, and a host: the cert case decides.
C12_Witness ==
    /\ fpc = "done"
    /\ farg.CertFile = <<"a">> /\ farg.KeyFile = <<>> /\ farg.Host = <<"b">>
    /\ fres.err = ErrFileAuth /\ fres.config = NilConfig

(***************************************************************************)
(* getCAChain on every short list of verified chains                       *)
(***************************************************************************)

MaxChains == 2
MaxChainLen == 2
\* Certificates a chain can hold; two of them carry the same signature.
ChainCerts == {Cert("s1", "raw1"), Cert("s2", "raw2"), Cert("s1", "raw1b")}
Chains == UNION {[1..len -> ChainCerts] : len \in 1..MaxChainLen}
ChainLists == UNION {[1..len -> Chains] : len \in 0..MaxChains}

\* getCAChain is about to be called with or without cached CA bytes, on a
\* connection with any verified chains.
GInit ==
    /\ fpc = "getCAChain"
    /\ farg \in [caData : {<<>>, <<PEMBlock("rawA")>>}, VerifiedChains : ChainLists]
    /\ fres = <<>>

\* n.getCAChain(tls).
chainCall ==
    /\ fpc = "getCAChain"
    /\ fres' = getCAChain(farg.caData, [VerifiedChains |-> farg.VerifiedChains])
    /\ fpc' = "done"
    /\ UNCHANGED <<farg, wvars, lvars, cvars>>

NextChain == chainCall

InitChain == GInit /\ WIdle /\ LIdle /\ CIdle

SpecChain == InitChain /\ [][NextChain]_vars

\* The positions, over the chains taken in order, at which a signature
\* occurs for the first time.
FirstSeen(certs) ==
    {i \in 1..Len(certs) : \A j \in 1..(i - 1) : certs[j].Signature # certs[i].Signature}

\* C13: with no CA bytes cached the returned chain holds one certificate per
\* signature of the verified chains, each the first certificate seen with
\* that signature, in the order of those first occurrences.
C13_DedupFirstSeen ==
    (fpc = "done" /\ farg.caData = <<>>) =>
      LET certs == Flatten(farg.VerifiedChains)
          first == FirstSeen(certs)
      IN /\ Len(fres) = Cardinality(first)
         /\ \A i \in first :
               fres[Cardinality({j \in first : j <= i})] = PEMBlock(certs[i].Raw)
         /\ \A k, l \in 1..Len(fres) :
               (k # l) =>
                 \E i, j \in first :
                   /\ fres[k] = PEMBlock(certs[i].Raw) /\ fres[l] = PEMBlock(certs[j].Raw)
                   /\ certs[i].Signature # certs[j].Signature

\* Two chains that share a signature: s2, s1 and then s1 (other bytes), s2.
C13_Witness ==
    /\ fpc = "done"
    /\ farg.caData = <<>>
    /\ farg.VerifiedChains = << <<Cert("s2", "raw2"), Cert("s1", "raw1")>>,
                                <<Cert("s1", "raw1b"), Cert("s2", "raw2")>> >>
    /\ fres = <<PEMBlock("raw2"), PEMBlock("raw1")>>

====
